---- MODULE Spec2Model ----
(***************************************************************************)
(* State-machine model of the WeChat Pay client in src/src/lib.rs:         *)
(* WechatpayClient::{check_params, request, pay, query_order} and the      *)
(* free functions get_sign, to_xml_str and from_xml_str.                   *)
(*                                                                         *)
(* Representation.  A Rust String is a sequence of bytes (naturals).  A    *)
(* BTreeMap<String, String> is a function from a finite set of keys to     *)
(* strings; its iteration order (ascending byte order of the keys) is the  *)
(* order of the keys in KeyOrder.  An XML text is a sequence of lexical    *)
(* tokens (start tag, end tag, character data, CDATA section, malformed    *)
(* markup, a byte that is not UTF-8).                                      *)
(***************************************************************************)
EXTENDS Integers, Sequences, FiniteSets, TLC

(***************************************************************************)
(* Bounds of the model.                                                    *)
(***************************************************************************)
\* longest field value (in bytes) the pure-function specifications draw
MaxLen == 2
\* largest explicit retries argument (Some(0) .. Some(MaxRetries))
MaxRetries == 3
\* most child elements of a document handed to from_xml_str
MaxElems == 2
\* longest value (in bytes) of a signed field handed to get_sign
MaxSignLen == 1

(***************************************************************************)
(* Strings and tables.                                                     *)
(***************************************************************************)
\* the bytes values are built from: 'a', 'b', ' ', '&', '<'
Char == {97, 98, 32, 38, 60}

\* all strings over S of length at most n
RECURSIVE StrUpTo(_, _)
StrUpTo(S, n) ==
    IF n = 0 THEN {<<>>}
    ELSE LET shorter == StrUpTo(S, n - 1)
         IN  shorter \cup {Append(s, c) : s \in {t \in shorter : Len(t) = n - 1}, c \in S}

\* concatenation of a sequence of strings
RECURSIVE Concat(_)
Concat(ss) == IF ss = <<>> THEN <<>> ELSE Head(ss) \o Concat(Tail(ss))

\* the field names of the protocol, in ascending byte order: the iteration
\* order of every BTreeMap<String, String> of the program
KeyOrder ==
    << "appid", "auth_code", "body", "key", "mch_id", "nonce_str", "notify_url",
       "openid", "out_trade_no", "product_id", "return_code", "sign",
       "spbill_create_ip", "total_fee", "trade_type", "transaction_id" >>

Key == {KeyOrder[i] : i \in 1..Len(KeyOrder)}

\* the bytes of a field name, abstracted to one symbol outside the byte range
\* (field names are [a-z_]+, which neither encoder changes)
KeyBytes(k) == << 1000 + (CHOOSE i \in 1..Len(KeyOrder) : KeyOrder[i] = k) >>

\* BTreeMap::new()
EmptyMap == << >>

\* BTreeMap::insert: add or overwrite one association
Insert(m, k, v) == [x \in (DOMAIN m) \cup {k} |-> IF x = k THEN v ELSE m[x]]

\* BTreeMap::remove
Remove(m, k) == [x \in (DOMAIN m) \ {k} |-> m[x]]

\* params.get(key).unwrap_or(&"".to_string())
GetOrEmpty(m, k) == IF k \in DOMAIN m THEN m[k] ELSE <<>>

\* the keys of a map in iteration order
OrderedKeys(m) == SelectSeq(KeyOrder, LAMBDA k : k \in DOMAIN m)

\* all maps with keys among ks and values in vs
Maps(ks, vs) == UNION {[d -> vs] : d \in SUBSET ks}

(***************************************************************************)
(* get_sign (lib.rs 324-351).                                              *)
(***************************************************************************)
\* form_urlencoded byte_serialize: bytes left as they are
Unreserved(b) ==
    \/ b \in 48..57 \/ b \in 65..90 \/ b \in 97..122
    \/ b \in {42, 45, 46, 95}
    \/ b >= 1000

HexDigit(d) == IF d < 10 THEN 48 + d ELSE 55 + d

\* one byte, application/x-www-form-urlencoded
UrlEncodeByte(b) ==
    IF Unreserved(b) THEN <<b>>
    ELSE IF b = 32 THEN <<43>>
    ELSE <<37, HexDigit(b \div 16), HexDigit(b % 16)>>

UrlEncode(s) == Concat([i \in 1..Len(s) |-> UrlEncodeByte(s[i])])

\* Serializer::append_pair: '&' between pairs, name '=' value
append_pair(target, name, value) ==
    (IF target = <<>> THEN <<>> ELSE target \o <<38>>)
        \o UrlEncode(name) \o <<61>> \o UrlEncode(value)

\* the filter of get_sign: which pairs take part in the signature
SignFilter_keeps_sign(pairs, k) == k # "key" /\ pairs[k] # <<>>

SignFilter(pairs, k) == k # "key" /\ k # "sign" /\ pairs[k] # <<>>

RECURSIVE EncodePairs(_, _, _)
EncodePairs(pairs, keys, target) ==
    IF keys = <<>> THEN target
    ELSE EncodePairs(pairs, Tail(keys),
                     append_pair(target, KeyBytes(Head(keys)), pairs[Head(keys)]))

\* md5 rendered as upper-case hex.  The digest is represented by a marker
\* byte followed by the digested bytes: an injective stand-in, so two
\* signatures are equal exactly if the signed strings are.
md5_hex(bytes) == <<0>> \o bytes

get_sign(pairs, api_key) ==
    LET keys    == SelectSeq(OrderedKeys(pairs), LAMBDA k : SignFilter(pairs, k))
        encoded == append_pair(EncodePairs(pairs, keys, <<>>), KeyBytes("key"), api_key)
    IN  md5_hex(encoded)

(***************************************************************************)
(* XML texts.                                                              *)
(***************************************************************************)
\* lexical tokens of an XML text
StartTag(n)  == [t |-> "start", name |-> n,  s |-> <<>>]
EndTag(n)    == [t |-> "end",   name |-> n,  s |-> <<>>]
Text(s)      == [t |-> "text",  name |-> "", s |-> s]
CDataSec(s)  == [t |-> "cdata", name |-> "", s |-> s]
\* markup that is not well formed
Junk         == [t |-> "junk",  name |-> "", s |-> <<>>]
\* a byte sequence that is not UTF-8
BadUtf8      == [t |-> "bad_utf8", name |-> "", s |-> <<>>]

\* the events of xml::reader::XmlEvent the program distinguishes, and Err
Event(e, n, s) == [e |-> e, name |-> n, s |-> s]

Lt  == <<38, 108, 116, 59>>
Amp == <<38, 97, 109, 112, 59>>

\* the writer's escaping of character data: '<' and '&' become entities
EscapeByte(b) == IF b = 60 THEN Lt ELSE IF b = 38 THEN Amp ELSE <<b>>

Escape(s) == Concat([i \in 1..Len(s) |-> EscapeByte(s[i])])

HasPrefix(s, p) == Len(s) >= Len(p) /\ SubSeq(s, 1, Len(p)) = p

\* the reader's resolution of entities; ok is FALSE on a raw '<' or on an
\* '&' that starts no known entity
RECURSIVE Unescape(_)
Unescape(s) ==
    IF s = <<>> THEN [ok |-> TRUE, out |-> <<>>]
    ELSE LET step ==
                 IF HasPrefix(s, Lt) THEN [ok |-> TRUE, c |-> 60, n |-> Len(Lt)]
                 ELSE IF HasPrefix(s, Amp) THEN [ok |-> TRUE, c |-> 38, n |-> Len(Amp)]
                 ELSE IF s[1] \in {38, 60} THEN [ok |-> FALSE, c |-> 0, n |-> 1]
                 ELSE [ok |-> TRUE, c |-> s[1], n |-> 1]
             rest == Unescape(SubSeq(s, step.n + 1, Len(s)))
         IN  IF step.ok /\ rest.ok
             THEN [ok |-> TRUE, out |-> <<step.c>> \o rest.out]
             ELSE [ok |-> FALSE, out |-> <<>>]

IsWhitespace(s) == \A i \in 1..Len(s) : s[i] \in {9, 10, 13, 32}

\* The events the reader yields for the tokens from position i on, with the
\* stack of open elements and whether the root element has been closed.  An
\* Err event ends the stream.
RECURSIVE Events(_, _, _, _)
Events(data, i, stack, closed) ==
    IF i > Len(data)
    THEN IF stack = <<>> /\ closed
         THEN << Event("EndDocument", "", <<>>) >>
         ELSE << Event("Err", "", <<>>) >>
    ELSE LET tok == data[i]
             err == << Event("Err", "", <<>>) >>
         IN  CASE tok.t = "start" ->
                    IF closed THEN err
                    ELSE << Event("StartElement", tok.name, <<>>) >>
                         \o Events(data, i + 1, <<tok.name>> \o stack, FALSE)
               [] tok.t = "end" ->
                    IF stack = <<>> \/ Head(stack) # tok.name THEN err
                    ELSE << Event("EndElement", tok.name, <<>>) >>
                         \o Events(data, i + 1, Tail(stack), Tail(stack) = <<>>)
               [] tok.t = "text" ->
                    IF tok.s = <<>> THEN Events(data, i + 1, stack, closed)
                    ELSE IF IsWhitespace(tok.s)
                    THEN (IF stack = <<>> THEN <<>>
                          ELSE << Event("Whitespace", "", tok.s) >>)
                         \o Events(data, i + 1, stack, closed)
                    ELSE IF stack = <<>> \/ ~Unescape(tok.s).ok THEN err
                    ELSE << Event("Characters", "", Unescape(tok.s).out) >>
                         \o Events(data, i + 1, stack, closed)
               [] tok.t = "cdata" ->
                    IF stack = <<>> THEN err
                    ELSE << Event("CData", "", tok.s) >>
                         \o Events(data, i + 1, stack, closed)
               [] OTHER -> err

\* xml::reader::EventReader::from_str(data), iterated
EventReader(data) ==
    << Event("StartDocument", "", <<>>) >> \o Events(data, 1, <<>>, FALSE)

\* one turn of the `for event in reader` loop of from_xml_str; st is
\* [tag, pairs, stop]
OnEvent(st, ev) ==
    CASE ev.e = "StartElement" -> [st EXCEPT !.tag = ev.name]
      [] ev.e = "CData"        -> [st EXCEPT !.pairs = Insert(st.pairs, st.tag, ev.s)]
      [] ev.e = "Err"          -> [st EXCEPT !.stop = TRUE]
      [] OTHER                 -> st

RECURSIVE Scan(_, _)
Scan(events, st) ==
    IF events = <<>> \/ st.stop THEN st
    ELSE Scan(Tail(events), OnEvent(st, Head(events)))

from_xml_str(data) ==
    Scan(EventReader(data), [tag |-> "", pairs |-> EmptyMap, stop |-> FALSE]).pairs

\* the child element the writer emits for one pair
Element(k, v) == << StartTag(k), Text(Escape(v)), EndTag(k) >>

to_xml_str(pairs) ==
    LET keys == OrderedKeys(pairs)
    IN  << StartTag("xml") >>
        \o Concat([i \in 1..Len(keys) |-> Element(keys[i], pairs[keys[i]])])
        \o << EndTag("xml") >>

\* the names of the child elements of an XML text
ElementNames(xml) ==
    {xml[i].name : i \in {j \in 1..Len(xml) : xml[j].t = "start"}} \ {"xml"}

(***************************************************************************)
(* The client: state of one WechatpayClient and of the call in progress.   *)
(***************************************************************************)
VARIABLES
    pc,         \* "idle": no call; "loop": inside the retry loop of request; "done": returned
    call,       \* the arguments of the call in progress
    url,        \* request: the url argument
    params,     \* request: the table after params.insert("sign", ..)
    xml_str,    \* request: the body handed to the transport
    err,        \* request: `let mut err`
    data,       \* request: the response buffer of the latest attempt
    tries,      \* the HTTP attempts performed by the call, oldest first
    result,     \* what the call returned
    pairs,      \* pure functions: the table under test
    api_key,    \* pure functions: the secret
    digest,     \* get_sign(pairs, api_key)
    change,     \* the latest change made to pairs
    xml,        \* an XML text: to_xml_str(pairs), or a document received
    decoded,    \* from_xml_str(xml)
    stage       \* which pure function has been applied last

clientVars == <<pc, call, url, params, xml_str, err, data, tries, result>>
pureVars   == <<pairs, api_key, digest, change, xml, decoded, stage>>
vars       == <<clientVars, pureVars>>

\* WechatpayClient::new: the immutable configuration
Client ==
    [ appid      |-> <<119, 120>>,
      mch_id     |-> <<49, 48>>,
      api_key    |-> <<115, 107>>,
      notify_url |-> <<104>>,
      cert       |-> <<>> ]

UNIFIEDORDER_URL == "https://api.mch.weixin.qq.com/pay/unifiedorder"
MICROPAY_URL     == "https://api.mch.weixin.qq.com/pay/micropay"
ORDERQUERY_URL   == "https://api.mch.weixin.qq.com/pay/orderquery"

TradeType == {"Micro", "Jsapi", "Native", "Qrcode", "App"}

\* impl ToString for TradeType; the wire names are abstracted to one symbol each
TradeTypeToString(tt) ==
    CASE tt = "Micro"  -> <<77>>
      [] tt = "Jsapi"  -> <<74>>
      [] tt \in {"Native", "Qrcode"} -> <<78>>
      [] tt = "App"    -> <<65>>

\* Option<u32>
None    == [some |-> FALSE, v |-> 0]
Some(n) == [some |-> TRUE, v |-> n]
unwrap_or(o, d) == IF o.some THEN o.v ELSE d

\* WechatpayError
NoError          == [kind |-> "None", field |-> "", at |-> 0, from |-> ""]
MissingField(k)  == [kind |-> "MissingField", field |-> k, at |-> 0, from |-> ""]
RedundantField(k) == [kind |-> "RedundantField", field |-> k, at |-> 0, from |-> ""]
RequestError     == [kind |-> "Request", field |-> "", at |-> 0, from |-> ""]
\* Curl(e): e is identified by the attempt and the libcurl call that raised it
Curl(i, f)       == [kind |-> "Curl", field |-> "", at |-> i, from |-> f]

\* WechatpayResult, and a panic of the calling thread
NoResult  == [tag |-> "none",  map |-> EmptyMap, err |-> NoError]
Ok(m)     == [tag |-> "Ok",    map |-> m,        err |-> NoError]
Err(e)    == [tag |-> "Err",   map |-> EmptyMap, err |-> e]
Panic     == [tag |-> "Panic", map |-> EmptyMap, err |-> NoError]

NoCall == [op |-> "none", given |-> EmptyMap, trade_type |-> "", retries |-> None]

(***************************************************************************)
(* check_params (lib.rs 91-110).                                           *)
(***************************************************************************)
\* the test of the Forbidden arm as a presence test
Violates_presence(p, key, check_type) ==
    CASE check_type = "Required"  -> GetOrEmpty(p, key) = <<>>
      [] check_type = "Forbidden" -> key \in DOMAIN p

\* the condition under which check_params reports key: both arms test emptiness
Violates(p, key, check_type) ==
    CASE check_type = "Required"  -> GetOrEmpty(p, key) = <<>>
      [] check_type = "Forbidden" -> GetOrEmpty(p, key) = <<>>

\* Option<WechatpayError>: NoError is None
check_params(p, keys, check_type) ==
    LET bad == {i \in 1..Len(keys) : Violates(p, keys[i], check_type)}
    IN  IF bad = {} THEN NoError
        ELSE LET first == keys[CHOOSE i \in bad : \A j \in bad : i <= j]
             IN  IF check_type = "Required" THEN MissingField(first)
                 ELSE RedundantField(first)

ForbiddenKeys == <<"key", "sign">>
RequiredKeys  == <<"body", "out_trade_no", "total_fee", "spbill_create_ip">>

\* the `match trade_type` of pay
TradeKeys(tt) ==
    CASE tt = "Native" -> <<"product_id">>
      [] tt = "Jsapi"  -> <<"openid">>
      [] tt = "Micro"  -> <<"auth_code">>
      [] OTHER         -> <<>>

\* the first error of a sequence of Option<WechatpayError>
RECURSIVE FirstError(_)
FirstError(es) ==
    IF es = <<>> THEN NoError
    ELSE IF Head(es) # NoError THEN Head(es) ELSE FirstError(Tail(es))

\* pay without its trade-type specific check
Validate_no_trade_rule(p, tt) ==
    FirstError(<< check_params(p, ForbiddenKeys, "Forbidden"),
                  check_params(p, RequiredKeys, "Required") >>)

\* the three early returns of pay (lib.rs 177-203)
Validate(p, tt) ==
    FirstError(<< check_params(p, ForbiddenKeys, "Forbidden"),
                  check_params(p, RequiredKeys, "Required"),
                  check_params(p, TradeKeys(tt), "Required") >>)

(***************************************************************************)
(* request (lib.rs 112-170).                                               *)
(***************************************************************************)
\* an attempt budget that defaults to 3 (the commented-out line 172)
Budget_default_three(retries) == unwrap_or(retries, 3)

\* retries.unwrap_or(1): the number of turns of the loop
Budget(retries) == unwrap_or(retries, 1)

\* `let mut data = Vec::<u8>::new()` inside the loop; old is the buffer of
\* the attempt before
NewBuffer(old) == <<>>

\* data.write_all(text)
write_all(buf, text) == buf \o text

\* String::from_utf8(data) is Ok
ValidUtf8(buf) == \A i \in 1..Len(buf) : buf[i].t # "bad_utf8"

\* `status_code == 200 || status_code == 201`
IsSuccess(status_code) == status_code = 200 \/ status_code = 201

\* an err that forgets the errors of earlier attempts
ErrAfter_forgets(e, i, perform_err, code_err) ==
    IF code_err THEN Curl(i, "response_code")
    ELSE IF perform_err THEN Curl(i, "perform")
    ELSE RequestError

\* err after attempt i: the map_err closures of perform (152-154) and the
\* Err arm of response_code (159-162), in that order
ErrAfter(e, i, perform_err, code_err) ==
    IF code_err THEN Curl(i, "response_code")
    ELSE IF perform_err THEN Curl(i, "perform")
    ELSE e

\* the status codes a transfer can end with; 0: no response was received
Status == {0, 200, 201, 500}

DocA   == << StartTag("xml"), StartTag("return_code"), CDataSec(<<97>>),
             EndTag("return_code"), EndTag("xml") >>
DocB   == << StartTag("xml"), StartTag("return_code"), CDataSec(<<98>>),
             EndTag("return_code"), EndTag("xml") >>
\* a body cut off by a failure of the transfer
DocCut == << StartTag("xml"), StartTag("return_code"), CDataSec(<<97>>) >>
\* a body that is not UTF-8
DocBin == << StartTag("xml"), BadUtf8 >>

\* the response bodies the transport can deliver: anything with a 200 or
\* 201, nothing or a document with another status, nothing without a status
Bodies(status) ==
    IF status \in {200, 201} THEN {<<>>, DocA, DocB, DocCut, DocBin}
    ELSE IF status = 0 THEN {<<>>}
    ELSE {<<>>, DocA}

\* lines 118-138 and the loop entry.  The map_err closures of lines 126-138
\* and 149-151 do not run: url is one of three NUL-free constants, for which
\* handle.url returns Ok; read_function and write_function store a closure
\* and return Ok; require_cert is false at both call sites, so ssl_cert is
\* not called.  err is therefore still Request when the loop is entered.
StartRequest(u, p, retries) ==
    LET signed == Insert(p, "sign", get_sign(p, Client.api_key))
    IN  /\ url' = u
        /\ params' = signed
        /\ xml_str' = to_xml_str(signed)
        /\ err' = RequestError
        /\ data' = <<>>
        /\ tries' = <<>>
        /\ IF Budget(retries) = 0
           THEN pc' = "done" /\ result' = Err(RequestError)
           ELSE pc' = "loop" /\ result' = NoResult

\* one turn of the loop (lines 140-168) and, after the last turn, line 169
Attempt ==
    /\ pc = "loop"
    /\ \E perform_err \in BOOLEAN, code_err \in BOOLEAN, status \in Status :
       \E body \in Bodies(status) :
         /\ code_err => status = 0
         /\ LET i           == Len(tries) + 1
                buf         == write_all(NewBuffer(data), body)
                e           == ErrAfter(err, i, perform_err, code_err)
                status_code == IF code_err THEN 0 ELSE status
            IN  /\ data' = buf
                /\ err' = e
                /\ tries' = Append(tries, [ status      |-> status_code,
                                            perform_err |-> perform_err,
                                            code_err    |-> code_err,
                                            body        |-> body,
                                            sent        |-> xml_str ])
                /\ IF IsSuccess(status_code)
                   THEN /\ pc' = "done"
                        /\ result' = IF ValidUtf8(buf) THEN Ok(from_xml_str(buf)) ELSE Panic
                   ELSE IF i >= Budget(call.retries)
                   THEN /\ pc' = "done"
                        /\ result' = Err(e)
                   ELSE /\ pc' = "loop"
                        /\ result' = NoResult
    /\ UNCHANGED <<call, url, params, xml_str, pureVars>>

(***************************************************************************)
(* pay (lib.rs 173-217) and query_order (lib.rs 243-258).                  *)
(***************************************************************************)
\* the fields a caller of pay may set
PayKeys == {"key", "sign", "body", "out_trade_no", "total_fee", "spbill_create_ip",
            "product_id", "openid", "auth_code"}

\* the tables pay is called with: every field absent or "a"; key, sign and
\* the common required fields may also be empty; at most one of the
\* trade-type specific fields is set
PayTables ==
    {p \in Maps(PayKeys, {<<>>, <<97>>}) :
        /\ \A k \in DOMAIN p : p[k] = <<>> => k \notin {"product_id", "openid", "auth_code"}
        /\ Cardinality(DOMAIN p \cap {"product_id", "openid", "auth_code"}) <= 1}

\* Option<u32> arguments
Retries == {None} \cup {Some(n) : n \in 0..MaxRetries}

\* get_nonce_str(): a random uuid
Nonces == {<<110>>, <<111>>}

\* the table pay hands to request (lines 206-215)
PayParams(p, tt, nonce) ==
    LET body == IF "body" \in DOMAIN p THEN p["body"] ELSE <<84>>
        p1 == Insert(p, "trade_type", TradeTypeToString(tt))
        p2 == Insert(p1, "appid", Client.appid)
        p3 == Insert(p2, "mch_id", Client.mch_id)
        p4 == Insert(p3, "nonce_str", nonce)
        p5 == Insert(p4, "body", body)
    IN  IF tt # "Micro" THEN Insert(p5, "notify_url", Client.notify_url) ELSE p5

pay(p, tt, retries) ==
    /\ pc = "idle"
    /\ call' = [op |-> "pay", given |-> p, trade_type |-> tt, retries |-> retries]
    /\ IF Validate(p, tt) # NoError
       THEN /\ pc' = "done"
            /\ result' = Err(Validate(p, tt))
            /\ UNCHANGED <<url, params, xml_str, err, data, tries>>
       ELSE \E nonce \in Nonces :
                StartRequest(IF tt = "Micro" THEN MICROPAY_URL ELSE UNIFIEDORDER_URL,
                             PayParams(p, tt, nonce), retries)
    /\ UNCHANGED pureVars

\* OrderIdentifier
OrderIds == {[kind |-> k, s |-> s] : k \in {"TransactionId", "OutTradeNo"},
                                     s \in {<<>>, <<97>>}}

query_order(id) ==
    /\ pc = "idle"
    /\ call' = [op |-> "query_order", given |-> EmptyMap, trade_type |-> "", retries |-> None]
    /\ \E nonce \in Nonces :
         LET p0 == Insert(EmptyMap,
                          IF id.kind = "TransactionId" THEN "transaction_id"
                          ELSE "out_trade_no", id.s)
             p1 == Insert(p0, "appid", Client.appid)
             p2 == Insert(p1, "mch_id", Client.mch_id)
             p3 == Insert(p2, "nonce_str", nonce)
         IN  StartRequest(ORDERQUERY_URL, p3, None)
    /\ UNCHANGED pureVars

\* the call has returned to its caller; nothing of it is kept
Return ==
    /\ pc = "done"
    /\ pc' = "idle"
    /\ call' = NoCall
    /\ url' = ""
    /\ params' = EmptyMap
    /\ xml_str' = <<>>
    /\ err' = NoError
    /\ data' = <<>>
    /\ tries' = <<>>
    /\ result' = NoResult
    /\ UNCHANGED pureVars

PureIdle ==
    /\ pairs = EmptyMap
    /\ api_key = <<>>
    /\ digest = <<>>
    /\ change = [kind |-> "none", field |-> "", before |-> <<>>]
    /\ xml = <<>>
    /\ decoded = EmptyMap
    /\ stage = "none"

ClientIdle ==
    /\ pc = "idle"
    /\ call = NoCall
    /\ url = ""
    /\ params = EmptyMap
    /\ xml_str = <<>>
    /\ err = NoError
    /\ data = <<>>
    /\ tries = <<>>
    /\ result = NoResult

Init == ClientIdle /\ PureIdle

Pay ==
    /\ pc = "idle"
    /\ \E p \in PayTables, tt \in TradeType, retries \in Retries : pay(p, tt, retries)

QueryOrder ==
    /\ pc = "idle"
    /\ \E id \in OrderIds : query_order(id)

Next == Pay \/ QueryOrder \/ Attempt \/ Return

Spec == Init /\ [][Next]_vars

(***************************************************************************)
(* get_sign as a pure function: a table and a secret are drawn, the table  *)
(* is changed one field at a time and signed again after each change.      *)
(***************************************************************************)
SignKeys == {"appid", "body", "key", "sign"}

\* values over 'a' and '&' (a byte the url encoding changes)
SignValues == StrUpTo({97, 38}, MaxSignLen)

\* what the caller may put under the reserved names `key` and `sign`
ReservedValues == {<<>>, <<97>>}

\* the values field k is drawn from
ValuesOf(k) == IF k \in {"key", "sign"} THEN ReservedValues ELSE SignValues

SignTables ==
    {m \in Maps(SignKeys, SignValues \cup ReservedValues) :
        \A k \in DOMAIN m : m[k] \in ValuesOf(k)}

Secrets == {<<115>>, <<115, 38>>}

NoChange == [kind |-> "none", field |-> "", before |-> <<>>]

InitSign ==
    /\ ClientIdle
    /\ pairs \in SignTables
    /\ api_key \in Secrets
    /\ digest = get_sign(pairs, api_key)
    /\ change = NoChange
    /\ xml = <<>>
    /\ decoded = EmptyMap
    /\ stage = "signed"

\* pairs with field k set to v, or removed when absent
WithField(m, k, absent, v) == IF absent THEN Remove(m, k) ELSE Insert(m, k, v)

\* add, remove or change a field that is `key`, `sign`, or empty before and
\* after; sign again
ChangeIgnoredField ==
    /\ stage = "signed"
    /\ \E k \in SignKeys, absent \in BOOLEAN :
       \E v \in ValuesOf(k) :
         /\ absent => v = <<>>
         /\ WithField(pairs, k, absent, v) # pairs
         /\ \/ k \in {"key", "sign"}
            \/ GetOrEmpty(pairs, k) = <<>> /\ v = <<>>
         /\ pairs' = WithField(pairs, k, absent, v)
         /\ digest' = get_sign(pairs', api_key)
         /\ change' = [kind |-> "ignored", field |-> k, before |-> digest]
    /\ UNCHANGED <<clientVars, api_key, xml, decoded, stage>>

\* give a field other than `key` and `sign` a new non-empty value, or remove
\* its non-empty value; sign again
ChangeSignedField ==
    /\ stage = "signed"
    /\ \E k \in SignKeys \ {"key", "sign"}, absent \in BOOLEAN, v \in SignValues :
         /\ absent => v = <<>>
         /\ GetOrEmpty(pairs, k) # v
         /\ pairs' = WithField(pairs, k, absent, v)
         /\ digest' = get_sign(pairs', api_key)
         /\ change' = [kind |-> "signed", field |-> k, before |-> digest]
    /\ UNCHANGED <<clientVars, api_key, xml, decoded, stage>>

NextSign == ChangeIgnoredField \/ ChangeSignedField

SpecSign == InitSign /\ [][NextSign]_vars

(***************************************************************************)
(* to_xml_str and from_xml_str as pure functions: either a table is drawn, *)
(* encoded and decoded again, or a received document is drawn and decoded. *)
(***************************************************************************)
XmlKeys == {"body", "total_fee"}

XmlValues == StrUpTo(Char, MaxLen)

\* what one element of a received document holds: nothing, character data
\* or a CDATA section
Contents ==
    {<<>>}
    \cup {<<Text(Escape(v))>> : v \in {<<49>>, <<97>>, <<32>>}}
    \cup {<<CDataSec(v)>> : v \in {<<49>>, <<97>>}}

Elements ==
    {<<StartTag(n)>> \o c \o <<EndTag(n)>> : n \in {"return_code", "total_fee"}, c \in Contents}

\* the sequences of at most n elements
RECURSIVE Children(_)
Children(n) ==
    IF n = 0 THEN {<<>>}
    ELSE Children(n - 1) \cup {c \o e : c \in Children(n - 1), e \in Elements}

\* the documents received: well formed, or cut short by malformed markup
Docs ==
    {<<StartTag("xml")>> \o c \o <<EndTag("xml")>> : c \in Children(MaxElems)}
    \cup {<<StartTag("xml")>> \o c \o <<Junk>> : c \in Children(MaxElems)}

InitXml ==
    /\ ClientIdle
    /\ api_key = <<>>
    /\ digest = <<>>
    /\ change = NoChange
    /\ decoded = EmptyMap
    /\ \/ stage = "table" /\ pairs \in Maps(XmlKeys, XmlValues) /\ xml = <<>>
       \/ stage = "received" /\ pairs = EmptyMap /\ xml \in Docs

Encode ==
    /\ stage = "table"
    /\ xml' = to_xml_str(pairs)
    /\ stage' = "encoded"
    /\ UNCHANGED <<clientVars, pairs, api_key, digest, change, decoded>>

Decode ==
    /\ stage \in {"encoded", "received"}
    /\ decoded' = from_xml_str(xml)
    /\ stage' = IF stage = "encoded" THEN "roundtrip" ELSE "decoded"
    /\ UNCHANGED <<clientVars, pairs, api_key, digest, change, xml>>

NextXml == Encode \/ Decode

SpecXml == InitXml /\ [][NextXml]_vars

(***************************************************************************)
(* Properties.                                                             *)
(***************************************************************************)
\* the call in progress has entered request
InRequest == url # ""

\* the attempt budget of the call, read off its arguments
MaxAttempts == IF call.retries.some THEN call.retries.v ELSE 1

\* attempt i of the call ended with status 200 or 201
Got2xx(i) == tries[i].status \in {200, 201}

\* attempt i of the call had a transport error
TransportError(i) == tries[i].perform_err \/ tries[i].code_err

AllFailed == \A i \in 1..Len(tries) : ~Got2xx(i)

\* the call has returned and its last attempt, and no attempt before it,
\* ended with status 200 or 201
FirstSuccessIsLast ==
    /\ pc = "done"
    /\ tries # <<>>
    /\ Got2xx(Len(tries))
    /\ \A i \in 1..(Len(tries) - 1) : ~Got2xx(i)

\* C1: if the first k-1 attempts of request end with a status other than
\* 200/201 and attempt k ends with 200 or 201, request returns success, the
\* table returned is decoded from the body of attempt k alone, and no attempt
\* follows attempt k.
C1_FirstSuccessReturned ==
    /\ \A i \in 1..(Len(tries) - 1) : ~Got2xx(i)
    /\ FirstSuccessIsLast =>
         /\ Len(tries) <= MaxAttempts
         /\ result = Ok(from_xml_str(tries[Len(tries)].body))

\* C1, for the response bodies that are UTF-8: the same statement.
C1_FirstSuccessReturnedUtf8 ==
    /\ \A i \in 1..(Len(tries) - 1) : ~Got2xx(i)
    /\ (FirstSuccessIsLast /\ ValidUtf8(tries[Len(tries)].body)) =>
         /\ Len(tries) <= MaxAttempts
         /\ result = Ok(from_xml_str(tries[Len(tries)].body))

C1_Utf8Witness ==
    /\ FirstSuccessIsLast
    /\ Len(tries) = 3
    /\ tries[2].body = DocA
    /\ tries[3].body = DocB
    /\ result = Ok(from_xml_str(DocB))

\* C2: if every attempt of request ends with a status other than 200/201,
\* request returns a failure after exactly max_attempts attempts (1 when
\* retries is None): never more attempts than that, and no return before.
C2_AllFailExactlyN ==
    InRequest =>
        /\ Len(tries) <= MaxAttempts
        /\ pc = "loop" => Len(tries) < MaxAttempts /\ AllFailed
        /\ (pc = "done" /\ AllFailed) => result.tag = "Err" /\ Len(tries) = MaxAttempts

C2_Witness ==
    /\ pc = "done"
    /\ InRequest
    /\ call.retries = Some(3)
    /\ AllFailed
    /\ Len(tries) = 3
    /\ result.tag = "Err"

\* C3: an attempt of request counts as a success only if its status is 200
\* or 201 and its transfer had no transport-level failure: request returns
\* success only from such an attempt, with the table decoded from its body,
\* and a call whose last attempt was not one has failed with its attempts
\* used up.
C3_SuccessOnlyFromCleanAttempt ==
    LET last == Len(tries)
    IN  /\ result.tag = "Ok" =>
             /\ tries # <<>>
             /\ Got2xx(last)
             /\ ~TransportError(last)
             /\ result.map = from_xml_str(tries[last].body)
        /\ (pc = "done" /\ tries # <<>> /\ (~Got2xx(last) \/ TransportError(last))) =>
             /\ result.tag = "Err"
             /\ last = MaxAttempts

\* the last attempt of the call that had a transport error, 0 if none had
LastTransportError ==
    LET had == {i \in 1..Len(tries) : TransportError(i)}
    IN  IF had = {} THEN 0 ELSE CHOOSE i \in had : \A j \in had : j <= i

\* C4: when request has used up its attempts without a 200/201, it returns
\* the Curl error of the last attempt that had a transport error, or the
\* Request error if no attempt had one.
C4_LastErrorSurfaced ==
    (pc = "done" /\ InRequest /\ AllFailed) =>
        IF LastTransportError = 0
        THEN result = Err(RequestError)
        ELSE /\ result.tag = "Err"
             /\ result.err.kind = "Curl"
             /\ result.err.at = LastTransportError

C4_Witness ==
    /\ pc = "done"
    /\ InRequest
    /\ AllFailed
    /\ Len(tries) = 2
    /\ TransportError(1)
    /\ ~TransportError(2)
    /\ result.err.kind = "Curl"
    /\ result.err.at = 1

\* the errors the three check_params rules of pay report for the call
RuleErrors ==
    << check_params(call.given, <<"key", "sign">>, "Forbidden"),
       check_params(call.given, <<"body", "out_trade_no", "total_fee", "spbill_create_ip">>,
                    "Required"),
       check_params(call.given,
                    IF call.trade_type = "Native" THEN <<"product_id">>
                    ELSE IF call.trade_type = "Jsapi" THEN <<"openid">>
                    ELSE IF call.trade_type = "Micro" THEN <<"auth_code">>
                    ELSE <<>>,
                    "Required") >>

\* C5: if a check_params rule of pay reports an error, pay returns the first
\* such error at once and performs no HTTP attempt; attempts are performed
\* only by calls all of whose checks passed.
C5_ValidationBeforeNetwork ==
    (call.op = "pay" /\ \E i \in 1..3 : RuleErrors[i] # NoError) =>
        /\ pc = "done"
        /\ tries = <<>>
        /\ ~InRequest
        /\ result = Err(FirstError(RuleErrors))

C5_Witness ==
    /\ call.op = "pay"
    /\ pc = "done"
    /\ tries = <<>>
    /\ RuleErrors[1] = NoError
    /\ RuleErrors[2] = NoError
    /\ result = Err(MissingField("product_id"))

\* C6: no XML body sent by an attempt of pay or query_order contains a
\* `key` element.
C6_KeyNeverSent ==
    \A i \in 1..Len(tries) : "key" \notin ElementNames(tries[i].sent)

\* C7: adding, removing or changing an empty-valued field, a `sign` field or
\* a `key` field of the table leaves the signature computed by get_sign
\* unchanged.
C7_IgnoredFieldsDoNotSign ==
    change.kind = "ignored" => digest = change.before

C7_Witness ==
    /\ change.kind = "ignored"
    /\ change.field = "sign"
    /\ GetOrEmpty(pairs, "sign") # <<>>
    /\ GetOrEmpty(pairs, "appid") # <<>>
    /\ GetOrEmpty(pairs, "body") # <<>>
    /\ digest = change.before

\* C8: from_xml_str(to_xml_str(table)) has exactly the associations of table.
C8_RoundTrip ==
    stage = "roundtrip" => decoded = pairs

\* from_xml_str as the claim describes it: character data and CDATA are both
\* associated with the element opened last
OnEventClaimed(st, ev) ==
    CASE ev.e = "StartElement" -> [st EXCEPT !.tag = ev.name]
      [] ev.e \in {"CData", "Characters"} ->
                                  [st EXCEPT !.pairs = Insert(st.pairs, st.tag, ev.s)]
      [] ev.e = "Err"          -> [st EXCEPT !.stop = TRUE]
      [] OTHER                 -> st

RECURSIVE ScanClaimed(_, _)
ScanClaimed(events, st) ==
    IF events = <<>> \/ st.stop THEN st
    ELSE ScanClaimed(Tail(events), OnEventClaimed(st, Head(events)))

\* C9: from_xml_str associates the value of every text event and of every
\* CDATA event with the name of the element opened last, overwriting, and
\* stops at the first parse error keeping what it has; <total_fee>1</total_fee>
\* decodes to total_fee -> 1.
C9_TextAndCDataDecoded ==
    stage = "decoded" =>
        decoded = ScanClaimed(EventReader(xml),
                              [tag |-> "", pairs |-> EmptyMap, stop |-> FALSE]).pairs

\* C10: pay rejects a table whose `key` is absent or empty with
\* RedundantField("key"), otherwise one whose `sign` is absent or empty with
\* RedundantField("sign"), in both cases without an HTTP attempt; a table with
\* both set to non-empty values passes the Forbidden rule, so every call of
\* pay that reaches the network was given a non-empty `key` and `sign`.
C10_ForbiddenTestsEmptiness ==
    call.op = "pay" =>
        LET k == GetOrEmpty(call.given, "key")
            g == GetOrEmpty(call.given, "sign")
        IN  /\ k = <<>> =>
                 pc = "done" /\ tries = <<>> /\ result = Err(RedundantField("key"))
            /\ (k # <<>> /\ g = <<>>) =>
                 pc = "done" /\ tries = <<>> /\ result = Err(RedundantField("sign"))
            /\ (k # <<>> /\ g # <<>>) => result.err.kind # "RedundantField"
            /\ tries # <<>> => k # <<>> /\ g # <<>>

C10_Witness ==
    /\ call.op = "pay"
    /\ pc = "done"
    /\ GetOrEmpty(call.given, "key") # <<>>
    /\ "sign" \in DOMAIN call.given
    /\ call.given["sign"] = <<>>
    /\ tries = <<>>
    /\ result = Err(RedundantField("sign"))

====
